---- MODULE Spec2Model ----
(***************************************************************************)
(* Model of the Builder page of sitecrafter                                *)
(* (src/frontend/src/pages/Builder.tsx): the file tree kept in the React   *)
(* state `files`, the list of build steps `steps`, the effect that folds   *)
(* pending CreateFile steps into the tree, the content edit, and the       *)
(* effect that projects the tree into a WebContainer mount descriptor,     *)
(* and the requests of the page (init and Send Instruction) with its       *)
(* loading flags; and of the request with retries of the Login and the     *)
(* Register page (src/frontend/src/pages/Login.tsx, src/unnamed/part_000). *)
(*                                                                         *)
(* Strings that the code takes apart or puts together (paths, names) are   *)
(* sequences of one-character strings, so that split("/") and the          *)
(* template `${currentFolder}/${segment}` are computed, not assumed.       *)
(* File contents are opaque and stay TLA+ strings.                         *)
(***************************************************************************)
EXTENDS Integers, Sequences, FiniteSets, TLC

VARIABLES
    files,         \* useState<FileItem[]>: the tree as the last render committed it
    steps,         \* useState<Step[]>
    selectedFile,  \* useState<FileItem | null>: <<>> for null, <<path>> otherwise
    webcontainer,  \* useWebContainer(): FALSE while the sandbox has not booted
    mounted,       \* <<>> before the first mount call, <<descriptor>> afterwards
    queued,        \* state updates enqueued by the reconcile effect, applied by the next render
    due,           \* effects whose dependencies changed in the last render
    crashed,       \* an effect threw: React unmounts the component
    edits,         \* number of content edits that reached setFiles (bounds the model)
    pass,          \* history: the state the reconcile effect last ran on
    last,          \* history: the last effect, render or event that ran (selection aside)
    loading,         \* Builder: useState(false), the generation spinner
    initialLoading,  \* Builder: useState(true), the full-page spinner
    templateSet,     \* Builder: useState(false)
    userPrompt,      \* Builder: useState(""), the instruction being typed
    llmMessages,     \* Builder: the roles of the messages of the conversation
    initPc,          \* where init() stands: "template", "chat" or "done"
    inFlight,        \* a Send Instruction request waits for its response
    auth             \* the Login and the Register page, see below

\* the state of the tree, the steps and the effects
treeVars == <<files, steps, selectedFile, webcontainer, mounted, queued, due, crashed, edits,
              pass, last>>

\* the state of the requests of the Builder page
loadVars == <<loading, initialLoading, templateSet, userPrompt, llmMessages, initPc, inFlight>>

vars == <<treeVars, loadVars, auth>>

(***************************************************************************)
(* Bounds of the model.                                                    *)
(***************************************************************************)
MaxSteps == 3    \* length of the step list
MaxBatch == 2    \* steps appended by one response
MaxEdits == 1    \* content edits
MaxMessages == 6 \* length of the conversation kept in llmMessages
MaxSubmissions == 2 \* submissions of the login form, and of the registration form

(***************************************************************************)
(* Inputs.  Paths as the upstream parser hands them over, one character    *)
(* per element.                                                            *)
(***************************************************************************)
Slash == "/"
UNDEF == "<undefined>"      \* JavaScript's undefined, where a string is expected

PathB   == <<"b">>
PathAA  == <<"a", "/", "a">>
PathAB  == <<"a", "/", "b">>
PathA1  == <<"a", "/", "1">>
PathAB1 == <<"a", "/", "b", "/", "1">>

CreateFile == "CreateFile"

Step(path, code) == [type |-> CreateFile, path |-> path, code |-> code, status |-> "pending"]

\* a step of another kind: a shell command, which has no path
RunScript == "RunScript"

ScriptStep(code) == [type |-> RunScript, code |-> code, status |-> "pending"]

\* a CreateFile step the parser found no path for
PathlessStep(code) == [type |-> CreateFile, code |-> code, status |-> "pending"]

\* The steps a response can carry, as init and the send handler append them:
\* a root file, three siblings under one folder (one of them named by a numeral),
\* a path sent with two payloads, a path that runs through another one, and
\* two steps that name no file.
StepInputs ==
    { Step(PathB, "x"), Step(PathAA, "x"), Step(PathAB, "x"), Step(PathAB, "y"),
      Step(PathA1, "x"), Step(PathAB1, "y"), ScriptStep("x"), PathlessStep("x") }

\* what the user types into the editor
EditContents == {"z"}

(***************************************************************************)
(* String helpers.                                                         *)
(***************************************************************************)
RECURSIVE IndexOf(_, _, _)
\* first position >= i of character c in s, 0 when there is none
IndexOf(s, c, i) ==
    IF i > Len(s) THEN 0
    ELSE IF s[i] = c THEN i
    ELSE IndexOf(s, c, i + 1)

RECURSIVE Split(_)
\* String.prototype.split("/"): the empty string gives one empty segment
Split(s) ==
    LET i == IndexOf(s, Slash, 1)
    IN  IF i = 0 THEN <<s>>
        ELSE <<SubSeq(s, 1, i - 1)>> \o Split(SubSeq(s, i + 1, Len(s)))

\* step.path?.split("/") ?? []
parsedPathOf(step) ==
    IF "path" \in DOMAIN step THEN Split(step.path) ELSE <<>>

\* Array.prototype.find(x => x.path === p), as the index of the first match or 0
RECURSIVE FindFrom(_, _, _)
FindFrom(items, p, i) ==
    IF i > Len(items) THEN 0
    ELSE IF items[i].path = p THEN i
    ELSE FindFrom(items, p, i + 1)

FindIndex(items, p) == FindFrom(items, p, 1)

(***************************************************************************)
(* Nodes.  A node is a record; `children` is a field of folders only and   *)
(* `content` a field of files (and of a folder a CreateFile step wrote a   *)
(* content to).                                                            *)
(***************************************************************************)
NewFile(name, path, code) ==
    [name |-> name, type |-> "file", path |-> path, content |-> code]

NewFolder(name, path) ==
    [name |-> name, type |-> "folder", path |-> path, children |-> <<>>]

\* the node replaced by a fresh file node instead of being written to
WithContentAsFile(node, code) == NewFile(node.name, node.path, code)

\* file.content = code, or { ...item, content: newContent }
WithContent(node, code) ==
    IF "children" \in DOMAIN node
    THEN [name |-> node.name, type |-> node.type, path |-> node.path,
          children |-> node.children, content |-> code]
    ELSE [name |-> node.name, type |-> node.type, path |-> node.path, content |-> code]

WithChildren(node, kids) ==
    IF "content" \in DOMAIN node
    THEN [name |-> node.name, type |-> node.type, path |-> node.path,
          children |-> kids, content |-> node.content]
    ELSE [name |-> node.name, type |-> node.type, path |-> node.path, children |-> kids]

(***************************************************************************)
(* The reconcile effect, Builder.tsx lines 58-111.                         *)
(***************************************************************************)
RECURSIVE WalkPushFile(_, _, _, _)
\* Walk with lines 75-76 left out: the final segment is pushed without looking
\* for a node that is already there
WalkPushFile(items, currentFolder, parsedPath, code) ==
    LET currentFolderName == Head(parsedPath)
        folderPath == currentFolder \o <<Slash>> \o currentFolderName
        rest == Tail(parsedPath)
        i == FindIndex(items, folderPath)
    IN  IF rest = <<>>
        THEN [ok |-> TRUE,
              items |-> Append(items, NewFile(currentFolderName, folderPath, code))]
        ELSE LET pushed == IF i = 0
                           THEN Append(items, NewFolder(currentFolderName, folderPath))
                           ELSE items
                 j == FindIndex(pushed, folderPath)
             IN  IF "children" \notin DOMAIN pushed[j]
                 THEN [ok |-> FALSE, items |-> pushed]
                 ELSE LET r == WalkPushFile(pushed[j].children, folderPath, rest, code)
                      IN  [ok |-> r.ok,
                           items |-> [pushed EXCEPT ![j] = WithChildren(@, r.items)]]

RECURSIVE WalkPushFolder(_, _, _, _)
\* Walk with line 88 left out: a folder is pushed for every non-final segment,
\* whether or not one is there
WalkPushFolder(items, currentFolder, parsedPath, code) ==
    LET currentFolderName == Head(parsedPath)
        folderPath == currentFolder \o <<Slash>> \o currentFolderName
        rest == Tail(parsedPath)
        i == FindIndex(items, folderPath)
    IN  IF rest = <<>>
        THEN [ok |-> TRUE,
              items |-> IF i = 0
                        THEN Append(items, NewFile(currentFolderName, folderPath, code))
                        ELSE [items EXCEPT ![i] = WithContent(@, code)]]
        ELSE LET pushed == Append(items, NewFolder(currentFolderName, folderPath))
                 j == FindIndex(pushed, folderPath)
             IN  IF "children" \notin DOMAIN pushed[j]
                 THEN [ok |-> FALSE, items |-> pushed]
                 ELSE LET r == WalkPushFolder(pushed[j].children, folderPath, rest, code)
                      IN  [ok |-> r.ok,
                           items |-> [pushed EXCEPT ![j] = WithChildren(@, r.items)]]

RECURSIVE Walk(_, _, _, _)
\* The while loop over parsedPath (lines 69-99) from the array
\* currentFileStructure = items on: the array after the loop, and ok = FALSE
\* when the loop throws.  The loop throws when it has descended into the
\* `children` of a node that has none (line 97 yields undefined, and the next
\* iteration calls .find on it).
Walk(items, currentFolder, parsedPath, code) ==
    LET currentFolderName == Head(parsedPath)
        folderPath == currentFolder \o <<Slash>> \o currentFolderName
        rest == Tail(parsedPath)
        i == FindIndex(items, folderPath)
    IN  IF rest = <<>>
        THEN [ok |-> TRUE,
              items |-> IF i = 0
                        THEN Append(items, NewFile(currentFolderName, folderPath, code))
                        ELSE [items EXCEPT ![i] = WithContent(@, code)]]
        ELSE LET pushed == IF i = 0
                           THEN Append(items, NewFolder(currentFolderName, folderPath))
                           ELSE items
                 j == FindIndex(pushed, folderPath)
             IN  IF "children" \notin DOMAIN pushed[j]
                 THEN [ok |-> FALSE, items |-> pushed]
                 ELSE LET r == Walk(pushed[j].children, folderPath, rest, code)
                      IN  [ok |-> r.ok,
                           items |-> [pushed EXCEPT ![j] = WithChildren(@, r.items)]]

\* The body of the map callback for one pending step (lines 62-101).
ApplyStep(originalFiles, step) ==
    IF step.type = CreateFile /\ parsedPathOf(step) # <<>>
    THEN Walk(originalFiles, <<>>, parsedPathOf(step), step.code)
    ELSE [ok |-> TRUE, items |-> originalFiles]

RECURSIVE ApplyAll(_, _)
\* The pending steps folded in list order; stops at the step that throws.
ApplyAll(originalFiles, pendingSteps) ==
    IF pendingSteps = <<>> THEN [ok |-> TRUE, items |-> originalFiles]
    ELSE LET r == ApplyStep(originalFiles, Head(pendingSteps))
         IN  IF r.ok THEN ApplyAll(r.items, Tail(pendingSteps)) ELSE r

IsPending(s) == s.status = "pending"

\* the filter of line 61 left out: every step is taken up again
EveryStep(stepList) == stepList

\* steps.filter(({status}) => status === "pending")
PendingOf(stepList) == SelectSeq(stepList, IsPending)

\* steps.map(s => ({...s, status: "completed"}))
Complete(s) == [s EXCEPT !.status = "completed"]

Sweep(stepList) == [i \in 1..Len(stepList) |-> Complete(stepList[i])]

NoUpdate == [files |-> <<>>, sweep |-> FALSE]

\* The nodes of `files` are shared with the arrays the effect works on: every
\* write below the root level, and every content write to a root node, is seen
\* through `files` at once; only nodes pushed to the root are not.
InPlace(oldFiles, items) == SubSeq(items, 1, Len(oldFiles))

ReconcileEffect ==
    /\ ~crashed
    /\ "reconcile" \in due
    /\ LET pendingSteps == PendingOf(steps)
           updateHappened == pendingSteps # <<>>
           r == ApplyAll(files, pendingSteps)
       IN  /\ files' = InPlace(files, r.items)
           /\ crashed' = ~r.ok
           /\ queued' = IF r.ok /\ updateHappened
                        THEN [files |-> <<r.items>>, sweep |-> TRUE]
                        ELSE queued
           /\ due' = IF r.ok THEN due \ {"reconcile"} ELSE {}
           /\ last' = IF r.ok THEN "reconcile" ELSE "throw"
    /\ pass' = [files |-> files, steps |-> steps]
    /\ UNCHANGED <<steps, selectedFile, webcontainer, mounted, edits>>
    /\ UNCHANGED <<loadVars, auth>>

\* React renders again with the updates the effect enqueued (setFiles, and
\* setSteps with the completing updater, lines 105-109); both effects see
\* changed dependencies.
Render ==
    /\ ~crashed
    /\ due = {}
    /\ queued # NoUpdate
    /\ files' = queued.files[1]
    /\ steps' = IF queued.sweep THEN Sweep(steps) ELSE steps
    /\ queued' = NoUpdate
    /\ due' = {"reconcile", "mount"}
    /\ last' = "render"
    /\ UNCHANGED <<selectedFile, webcontainer, mounted, crashed, edits, pass>>
    /\ UNCHANGED <<loadVars, auth>>

Quiescent == ~crashed /\ due = {} /\ queued = NoUpdate

(***************************************************************************)
(* Arrival of steps: init (lines 163-166, 179-182) and the Send            *)
(* Instruction handler (lines 286-289) append the parsed steps, pending.   *)
(***************************************************************************)
\* the responses of n steps
Batches(n) == [1..n -> StepInputs]

Arrive ==
    /\ Quiescent
    /\ \E n \in 1..MaxBatch :
          /\ Len(steps) + n <= MaxSteps
          /\ \E batch \in Batches(n) : steps' = steps \o batch
    /\ due' = {"reconcile"}
    /\ last' = "arrive"
    /\ UNCHANGED <<files, selectedFile, webcontainer, mounted, queued, crashed, edits, pass>>
    /\ UNCHANGED <<loadVars, auth>>

(***************************************************************************)
(* Content edit, lines 35-56.                                              *)
(***************************************************************************)
RECURSIVE updateFileContentByName(_, _, _)
\* updateFileContent with line 41 comparing names instead of paths: every node
\* that has the name of the selected node is written to
updateFileContentByName(items, selPath, newContent) ==
    [i \in 1..Len(items) |->
        IF <<Slash>> \o items[i].name
              = SubSeq(selPath, Len(selPath) - Len(items[i].name), Len(selPath))
        THEN WithContent(items[i], newContent)
        ELSE IF items[i].type = "folder" /\ "children" \in DOMAIN items[i]
        THEN WithChildren(items[i],
                          updateFileContentByName(items[i].children, selPath, newContent))
        ELSE items[i]]

RECURSIVE updateFileContent(_, _, _)
\* the updater handed to setFiles (lines 39-52)
updateFileContent(items, selPath, newContent) ==
    [i \in 1..Len(items) |->
        IF items[i].path = selPath
        THEN WithContent(items[i], newContent)
        ELSE IF items[i].type = "folder" /\ "children" \in DOMAIN items[i]
        THEN WithChildren(items[i], updateFileContent(items[i].children, selPath, newContent))
        ELSE items[i]]

handleCodeChange(newContent) ==
    /\ Quiescent
    /\ edits < MaxEdits
    /\ last' = "edit"
    /\ IF selectedFile = <<>>
       THEN UNCHANGED <<files, due, edits>>
       ELSE /\ files' = updateFileContent(files, selectedFile[1], newContent)
            /\ due' = {"reconcile", "mount"}
            /\ edits' = edits + 1
    /\ UNCHANGED <<steps, selectedFile, webcontainer, mounted, queued, crashed, pass>>
    /\ UNCHANGED <<loadVars, auth>>

RECURSIVE NodesOf(_)
\* every node of a list of nodes, at any depth, parents before children
NodesOf(items) ==
    IF items = <<>> THEN <<>>
    ELSE <<Head(items)>>
         \o (IF "children" \in DOMAIN Head(items) THEN NodesOf(Head(items).children) ELSE <<>>)
         \o NodesOf(Tail(items))

AllNodes == NodesOf(files)

\* FileExplorer's onFileSelect={setSelectedFile} (line 310): the user picks a
\* node.  Only handleCodeChange reads the selection, so selections made after
\* the last edit the model allows are left out.
SelectFile(i) ==
    /\ Quiescent
    /\ edits < MaxEdits
    /\ selectedFile' = <<AllNodes[i].path>>
    /\ selectedFile' # selectedFile
    /\ UNCHANGED <<files, steps, webcontainer, mounted, queued, due, crashed, edits, pass, last>>
    /\ UNCHANGED <<loadVars, auth>>

(***************************************************************************)
(* JavaScript objects used as mappings.  An object is the sequence of its  *)
(* <<key, value>> entries in own-property order: keys that are array       *)
(* indices first, in ascending numeric order, then the other keys in the   *)
(* order they were first set.                                              *)
(***************************************************************************)
Digits == <<"0", "1", "2", "3", "4", "5", "6", "7", "8", "9">>

IsDigit(c) == \E d \in 1..Len(Digits) : Digits[d] = c

DigitValue(c) == (CHOOSE d \in 1..Len(Digits) : Digits[d] = c) - 1

\* a canonical numeric string: digits only, no leading zero.  Names longer than
\* Len(Digits) - 1 characters are treated as ordinary keys: every shorter
\* numeral is below the array-index limit 2^32 - 1.
IsArrayIndex(key) ==
    /\ Len(key) \in 1..(Len(Digits) - 1)
    /\ \A i \in 1..Len(key) : IsDigit(key[i])
    /\ (key[1] = "0" => Len(key) = 1)

RECURSIVE ToNumber(_)
ToNumber(key) ==
    IF key = <<>> THEN 0
    ELSE ToNumber(SubSeq(key, 1, Len(key) - 1)) * Len(Digits) + DigitValue(key[Len(key)])

RECURSIVE KeyFrom(_, _, _)
KeyFrom(obj, key, i) ==
    IF i > Len(obj) THEN 0
    ELSE IF obj[i][1] = key THEN i
    ELSE KeyFrom(obj, key, i + 1)

\* position of key among the entries of obj, 0 when obj has no such key
KeyIndex(obj, key) == KeyFrom(obj, key, 1)

ObjKeys(obj) == [i \in 1..Len(obj) |-> obj[i][1]]

ObjHas(obj, key) == KeyIndex(obj, key) # 0

\* obj[key]; only read where the key exists
ObjGet(obj, key) == obj[KeyIndex(obj, key)][2]

\* how many entries precede a new key in own-property order
InsertAfter(obj, key) ==
    IF IsArrayIndex(key)
    THEN Cardinality({i \in 1..Len(obj) :
                        IsArrayIndex(obj[i][1]) /\ ToNumber(obj[i][1]) < ToNumber(key)})
    ELSE Len(obj)

\* obj[key] = value
ObjSet(obj, key, value) ==
    LET i == KeyIndex(obj, key)
    IN  IF i # 0 THEN [obj EXCEPT ![i] = <<key, value>>]
        ELSE LET n == InsertAfter(obj, key)
             IN  SubSeq(obj, 1, n) \o <<<<key, value>>>> \o SubSeq(obj, n + 1, Len(obj))

RECURSIVE fromEntriesBackwards(_)
\* the entries set from the last to the first
fromEntriesBackwards(entries) ==
    IF entries = <<>> THEN <<>>
    ELSE ObjSet(fromEntriesBackwards(Tail(entries)), Head(entries)[1], Head(entries)[2])

RECURSIVE fromEntries(_)
\* Object.fromEntries(entries)
fromEntries(entries) ==
    IF entries = <<>> THEN <<>>
    ELSE LET e == entries[Len(entries)]
         IN  ObjSet(fromEntries(SubSeq(entries, 1, Len(entries) - 1)), e[1], e[2])

(***************************************************************************)
(* The mount effect, Builder.tsx lines 113-152.                            *)
(***************************************************************************)
\* file.content || ''
ContentsOf(file) ==
    IF "content" \in DOMAIN file /\ file.content # UNDEF /\ file.content # ""
    THEN file.content
    ELSE ""

FileDescriptor(file) == [file |-> [contents |-> ContentsOf(file)]]

RECURSIVE processFile(_, _, _)
RECURSIVE processChildren(_, _)
\* processFile (lines 117-143) writes to the enclosing mountStructure and
\* returns a descriptor: the result is [ms |-> mountStructure afterwards,
\* ret |-> <<returned descriptor>>, or <<>> for undefined].
processFile(ms, file, isRootFolder) ==
    IF file.type = "folder"
    THEN LET kids == IF "children" \in DOMAIN file
                     THEN processChildren(ms, file.children)
                     ELSE [ms |-> ms, entries |-> <<>>]
             ms2 == ObjSet(kids.ms, file.name, [directory |-> fromEntries(kids.entries)])
         IN  [ms |-> ms2, ret |-> <<ObjGet(ms2, file.name)>>]
    ELSE IF file.type = "file"
    THEN IF isRootFolder
         THEN LET ms2 == ObjSet(ms, file.name, FileDescriptor(file))
              IN  [ms |-> ms2, ret |-> <<ObjGet(ms2, file.name)>>]
         ELSE [ms |-> ms, ret |-> <<FileDescriptor(file)>>]
    ELSE [ms |-> ms,
          ret |-> IF ObjHas(ms, file.name) THEN <<ObjGet(ms, file.name)>> ELSE <<>>]

\* file.children.map(child => [child.name, processFile(child, false)]) (line 122)
processChildren(ms, children) ==
    IF children = <<>> THEN [ms |-> ms, entries |-> <<>>]
    ELSE LET front == processChildren(ms, SubSeq(children, 1, Len(children) - 1))
             child == children[Len(children)]
             r == processFile(front.ms, child, FALSE)
         IN  [ms |-> r.ms, entries |-> Append(front.entries, <<child.name, r.ret[1]>>)]

RECURSIVE processRoots(_, _)
\* files.forEach(file => processFile(file, true)) (line 145)
processRoots(ms, roots) ==
    IF roots = <<>> THEN ms
    ELSE processRoots(processFile(ms, Head(roots), TRUE).ms, Tail(roots))

createMountStructure(roots) == processRoots(<<>>, roots)

MountEffect ==
    /\ ~crashed
    /\ "mount" \in due
    /\ "reconcile" \notin due
    /\ mounted' = IF webcontainer THEN <<createMountStructure(files)>> ELSE mounted
    /\ due' = due \ {"mount"}
    /\ last' = "mount"
    /\ UNCHANGED <<files, steps, selectedFile, webcontainer, queued, crashed, edits, pass>>
    /\ UNCHANGED <<loadVars, auth>>

\* useWebContainer (line 26) hands over the booted sandbox: a render in which
\* only the mount effect's dependencies changed
Boot ==
    /\ Quiescent
    /\ ~webcontainer
    /\ webcontainer' = TRUE
    /\ due' = {"mount"}
    /\ last' = "boot"
    /\ UNCHANGED <<files, steps, selectedFile, mounted, queued, crashed, edits, pass>>
    /\ UNCHANGED <<loadVars, auth>>

(***************************************************************************)
(* The requests of the Builder page: init (lines 154-195), run once by the *)
(* effect of lines 197-199, and the Send Instruction handler (lines        *)
(* 266-295).  A response is taken up, like every event, when the effects   *)
(* and the render of the previous one have run.                            *)
(***************************************************************************)
Space == " "

\* what the user may have typed into the instruction box
PromptInputs == {<<>>, <<Space>>, <<"g", "o">>}

RECURSIVE TrimStart(_)
TrimStart(str) ==
    IF str # <<>> /\ Head(str) = Space THEN TrimStart(Tail(str)) ELSE str

RECURSIVE TrimEnd(_)
TrimEnd(str) ==
    IF str # <<>> /\ str[Len(str)] = Space THEN TrimEnd(SubSeq(str, 1, Len(str) - 1)) ELSE str

\* String.prototype.trim
Trim(str) == TrimEnd(TrimStart(str))

\* the steps parseXml finds in one response: none, or up to MaxBatch of them
Responses == UNION {Batches(n) : n \in 0..MaxBatch}

\* [...prompts, prompt].map(content => ({role: "user", content})): the roles,
\* for a template response that carries two prompts
InitMessages == <<"user", "user", "user">>

\* the Loader of line 252 is shown in place of the instruction box
SpinnerShown == loading \/ ~templateSet

\* the page below the early return of line 201 is rendered
PageShown == ~initialLoading

\* /template answers: lines 159-168, up to the await of line 170
TemplateResponds ==
    /\ Quiescent
    /\ initPc = "template"
    /\ \E batch \in Responses :
          /\ Len(batch) <= MaxSteps
          /\ steps' = batch
    /\ templateSet' = TRUE
    /\ loading' = TRUE
    /\ initPc' = "chat"
    /\ due' = {"reconcile"}
    /\ last' = "arrive"
    /\ UNCHANGED <<files, selectedFile, webcontainer, mounted, queued, crashed, edits, pass>>
    /\ UNCHANGED <<initialLoading, userPrompt, llmMessages, inFlight, auth>>

\* /template fails: the catch of line 190 and the finally of line 192
TemplateFails ==
    /\ ~crashed
    /\ initPc = "template"
    /\ initialLoading' = FALSE
    /\ initPc' = "done"
    /\ UNCHANGED <<treeVars, loading, templateSet, userPrompt, llmMessages, inFlight, auth>>

\* /chat answers: lines 177-189 and the finally of line 192
ChatResponds ==
    /\ Quiescent
    /\ initPc = "chat"
    /\ \E batch \in Responses :
          /\ Len(steps) + Len(batch) <= MaxSteps
          /\ steps' = steps \o batch
    /\ loading' = FALSE
    /\ llmMessages' = InitMessages \o <<"assistant">>
    /\ initialLoading' = FALSE
    /\ initPc' = "done"
    /\ due' = {"reconcile"}
    /\ last' = "arrive"
    /\ UNCHANGED <<files, selectedFile, webcontainer, mounted, queued, crashed, edits, pass>>
    /\ UNCHANGED <<templateSet, userPrompt, inFlight, auth>>

\* /chat fails: the await of line 170 throws, lines 177-189 are skipped
ChatFails ==
    /\ ~crashed
    /\ initPc = "chat"
    /\ initialLoading' = FALSE
    /\ initPc' = "done"
    /\ UNCHANGED <<treeVars, loading, templateSet, userPrompt, llmMessages, inFlight, auth>>

\* the textarea of lines 259-264
TypePrompt(text) ==
    /\ ~crashed
    /\ PageShown
    /\ ~SpinnerShown
    /\ userPrompt' = text
    /\ userPrompt' # userPrompt
    /\ UNCHANGED <<treeVars, loading, initialLoading, templateSet, llmMessages, initPc,
                   inFlight, auth>>

\* the onClick of line 266, up to the await of line 276
SendClick ==
    /\ ~crashed
    /\ PageShown
    /\ ~SpinnerShown
    /\ Trim(userPrompt) # <<>>
    /\ Len(llmMessages) + 2 <= MaxMessages
    /\ loading' = TRUE
    /\ inFlight' = TRUE
    /\ UNCHANGED <<treeVars, initialLoading, templateSet, userPrompt, llmMessages, initPc, auth>>

\* the response of the sent instruction: lines 280-289 and the finally of line 292
SendResponds ==
    /\ Quiescent
    /\ inFlight
    /\ \E batch \in Responses :
          /\ Len(steps) + Len(batch) <= MaxSteps
          /\ steps' = steps \o batch
    /\ llmMessages' = llmMessages \o <<"user", "assistant">>
    /\ loading' = FALSE
    /\ inFlight' = FALSE
    /\ due' = {"reconcile"}
    /\ last' = "arrive"
    /\ UNCHANGED <<files, selectedFile, webcontainer, mounted, queued, crashed, edits, pass>>
    /\ UNCHANGED <<initialLoading, templateSet, userPrompt, initPc, auth>>

\* the sent instruction fails: the catch of line 290 and the finally of line 292
SendFails ==
    /\ ~crashed
    /\ inFlight
    /\ loading' = FALSE
    /\ inFlight' = FALSE
    /\ UNCHANGED <<treeVars, initialLoading, templateSet, userPrompt, llmMessages, initPc, auth>>

(***************************************************************************)
(* The Login page (Login.tsx, handleLogin, lines 23-75) and the Register   *)
(* page (handleRegister, lines 22-65 of its file).  `auth` maps each page  *)
(* to its state: the two flags, where the handler stands, the retryCount   *)
(* of the request that is out, the toast shown last, and as history the    *)
(* number of requests of the submission and what came back for each.       *)
(***************************************************************************)
LoginMaxRetries == 2       \* retryCount < 2, Login.tsx line 40
RegisterMaxRetries == 2    \* retryCount < 2, line 39 of the Register page

Pages == {"login", "register"}

MaxRetries(page) == IF page = "login" THEN LoginMaxRetries ELSE RegisterMaxRetries

ECONNABORTED == "ECONNABORTED"

\* error.code of a rejected request: axios' timeout, a response with an error
\* status, no response at all
ErrorCodes == {ECONNABORTED, "ERR_BAD_REQUEST", "ERR_NETWORK"}

\* what a resolved request carries: the status, and whether the body holds
\* both `user` and `token`
Replies ==
    { [status |-> 200, complete |-> TRUE], [status |-> 200, complete |-> FALSE],
      [status |-> 201, complete |-> TRUE], [status |-> 204, complete |-> FALSE] }

\* the condition of the retry makes every failure but the last allowed one a
\* new request, whatever its code
RetryAnyFailure(page, retryCount, code) == retryCount < MaxRetries(page)

\* retryCount < 2 && error.code === 'ECONNABORTED'
ShouldRetry(page, retryCount, code) ==
    retryCount < MaxRetries(page) /\ code = ECONNABORTED

\* timeout: retryCount === 0 ? 50000 : 30000
TimeoutOf(retryCount) == IF retryCount = 0 THEN 50000 ELSE 30000

PageIdle ==
    [loading |-> FALSE, showColdStartMessage |-> FALSE, pc |-> "idle", retryCount |-> 0,
     timeout |-> 0, toast |-> "none", submissions |-> 0, sent |-> 0, outcomes |-> <<>>]

\* what came back for a request, as the history keeps it
Replied(reply) == [kind |-> "reply", status |-> reply.status]

Failed(code) == [kind |-> "error", code |-> code]

\* the finally block
Finished(a, toast, outcome) ==
    [a EXCEPT !.loading = FALSE, !.showColdStartMessage = FALSE, !.pc = "idle",
              !.toast = toast, !.outcomes = Append(@, outcome)]

\* the toast of the try block, for a request that resolved ("" when none is made)
ToastOfReply(page, reply) ==
    IF page = "login"
    THEN IF reply.status = 200
         THEN IF reply.complete THEN "Login successful!" ELSE "Login failed. Missing username."
         ELSE ""
    ELSE IF reply.status = 201 THEN "Registered Successfully!" ELSE ""

\* the toast of the catch block
ToastOfError(page, code) ==
    IF code = ECONNABORTED
    THEN "Server is taking too long to respond. Please try again."
    ELSE IF code = "ERR_BAD_REQUEST"
    THEN "error.response.data.message"
    ELSE IF page = "login" THEN "Login failed. Please try again."
    ELSE "Registration failed. Please try again."

\* the form is submitted: the two flags are set and the first request goes out
Submit(page) ==
    /\ auth[page].pc = "idle"
    /\ ~auth[page].loading
    /\ auth[page].submissions < MaxSubmissions
    /\ auth' = [auth EXCEPT ![page] =
                  [@ EXCEPT !.loading = TRUE, !.showColdStartMessage = TRUE, !.pc = "request",
                            !.retryCount = 0, !.timeout = TimeoutOf(0),
                            !.submissions = @ + 1, !.sent = 1, !.outcomes = <<>>]]
    /\ UNCHANGED <<treeVars, loadVars>>

\* the request resolves: the try block and the finally block
Resolve(page, reply) ==
    /\ auth[page].pc = "request"
    /\ auth' = [auth EXCEPT ![page] =
                  Finished(@, IF ToastOfReply(page, reply) = "" THEN @.toast
                              ELSE ToastOfReply(page, reply),
                           Replied(reply))]
    /\ UNCHANGED <<treeVars, loadVars>>

\* the request is rejected: the catch of the request function, then either
\* the next request or the catch and the finally of the handler
Reject(page, code) ==
    /\ auth[page].pc = "request"
    /\ auth' = [auth EXCEPT ![page] =
                  IF ShouldRetry(page, @.retryCount, code)
                  THEN [@ EXCEPT !.retryCount = @ + 1,
                                 !.timeout = TimeoutOf(auth[page].retryCount + 1),
                                 !.sent = @ + 1, !.outcomes = Append(@, Failed(code))]
                  ELSE Finished(@, ToastOfError(page, code), Failed(code))]
    /\ UNCHANGED <<treeVars, loadVars>>

AuthNext ==
    \/ \E page \in Pages : Submit(page)
    \/ \E page \in Pages : \E reply \in Replies : Resolve(page, reply)
    \/ \E page \in Pages : \E code \in ErrorCodes : Reject(page, code)

\* a request that is out has an end: a reply, an error, or axios' timeout
RequestEnds(page) ==
    \/ \E reply \in Replies : Resolve(page, reply)
    \/ \E code \in ErrorCodes : Reject(page, code)

(***************************************************************************)
(* The state machine.                                                      *)
(***************************************************************************)
Init ==
    /\ loading = FALSE
    /\ initialLoading = TRUE
    /\ templateSet = FALSE
    /\ userPrompt = <<>>
    /\ llmMessages = <<>>
    /\ initPc = "template"
    /\ inFlight = FALSE
    /\ auth = [page \in Pages |-> PageIdle]
    /\ files = <<>>
    /\ steps = <<>>
    /\ selectedFile = <<>>
    /\ webcontainer = FALSE
    /\ mounted = <<>>
    /\ queued = NoUpdate
    /\ due = {"reconcile", "mount"}
    /\ crashed = FALSE
    /\ edits = 0
    /\ pass = [files |-> <<>>, steps |-> <<>>]
    /\ last = "init"

Next ==
    \/ ReconcileEffect
    \/ MountEffect
    \/ Render
    \/ Boot
    \/ Arrive
    \/ \E i \in 1..Len(AllNodes) : SelectFile(i)
    \/ \E c \in EditContents : handleCodeChange(c)

Spec == Init /\ [][Next]_vars

\* The Builder page with its requests in place of the abstract arrival of steps.
LoadNext ==
    \/ ReconcileEffect
    \/ MountEffect
    \/ Render
    \/ Boot
    \/ \E i \in 1..Len(AllNodes) : SelectFile(i)
    \/ \E c \in EditContents : handleCodeChange(c)
    \/ TemplateResponds
    \/ TemplateFails
    \/ ChatResponds
    \/ ChatFails
    \/ \E text \in PromptInputs : TypePrompt(text)
    \/ SendClick
    \/ SendResponds
    \/ SendFails

LoadSpec == Init /\ [][LoadNext]_vars

\* The Login and the Register page.
AuthSpec ==
    /\ Init
    /\ [][AuthNext]_vars
    /\ \A page \in Pages : WF_vars(RequestEnds(page))

\* the enabling conditions of the two effects
ReconcileDue == ~crashed /\ "reconcile" \in due

MountDue == ~crashed /\ "mount" \in due /\ "reconcile" \notin due

\* React runs an effect whose dependencies changed after the render that
\* changed them, and renders again once a state update is enqueued: neither is
\* put off for ever.  Responses, the boot and the user's edits may never come.
\* An effect that is due stays due until it runs, so its weak fairness is
\* stated as: it is not due for ever.
FairSpec ==
    /\ Spec
    /\ WF_vars(Render)
    /\ []<>~ReconcileDue
    /\ []<>~MountDue

(***************************************************************************)
(* Vocabulary of the properties.  Nothing below is used by the actions.    *)
(***************************************************************************)
\* the path the walk gives the node of step path p (line 70 puts a separator
\* in front of every segment, the first included)
TreePath(p) == <<Slash>> \o p

\* positions of the separators of p
SlashSet(p) == {i \in 1..Len(p) : p[i] = Slash}

\* the tree paths of the proper prefixes of step path p
ProperPrefixes(p) == {TreePath(SubSeq(p, 1, i - 1)) : i \in SlashSet(p)}

\* the k-th shortest proper prefix of p, as a tree path
NthPrefix(p, k) ==
    LET i == CHOOSE x \in SlashSet(p) : Cardinality({y \in SlashSet(p) : y < x}) = k - 1
    IN  TreePath(SubSeq(p, 1, i - 1))

HasPath(s) == s.type = CreateFile /\ "path" \in DOMAIN s

StatusPending(s) == s.status = "pending"

\* indices of the steps that were pending when the last pass began
WasPending == {k \in 1..Len(pass.steps) : StatusPending(pass.steps[k])}

AllCompleted == \A k \in 1..Len(steps) : steps[k].status = "completed"

\* the nodes of the tree with path q
NodesAt(tree, q) ==
    LET nodes == NodesOf(tree)
    IN  {i \in 1..Len(nodes) : nodes[i].path = q}

NodeAt(tree, q) ==
    LET nodes == NodesOf(tree)
    IN  nodes[CHOOSE i \in 1..Len(nodes) : nodes[i].path = q]

IsFolder(node) == node.type = "folder"

KidsOf(node) == IF "children" \in DOMAIN node THEN node.children ELSE <<>>

NamesOf(items) == [i \in 1..Len(items) |-> items[i].name]

PathsOf(items) == [i \in 1..Len(items) |-> items[i].path]

Distinct(seq) == \A i, j \in 1..Len(seq) : i # j => seq[i] # seq[j]

RECURSIVE Reference(_)
\* the reference projection of a node: a mapping from child names to
\* reference projections for a folder, the contents for a file
Reference(node) ==
    IF IsFolder(node)
    THEN [directory |->
            [n \in {KidsOf(node)[i].name : i \in 1..Len(KidsOf(node))} |->
                Reference(KidsOf(node)[CHOOSE i \in 1..Len(KidsOf(node)) :
                                          KidsOf(node)[i].name = n])]]
    ELSE [file |-> [contents |-> IF "content" \in DOMAIN node /\ node.content # UNDEF
                                 THEN node.content ELSE ""]]

RECURSIVE AsMapping(_)
\* a descriptor the code built, with every object read as an unordered mapping
AsMapping(desc) ==
    IF "directory" \in DOMAIN desc
    THEN [directory |->
            [n \in {desc.directory[i][1] : i \in 1..Len(desc.directory)} |->
                AsMapping(ObjGet(desc.directory, n))]]
    ELSE desc

\* a mount call has just been made with the projection of a committed tree
JustMounted == last = "mount" /\ webcontainer /\ queued = NoUpdate

(***************************************************************************)
(* C1 (code_bug).  The claim: for every root node r of the tree, the mount *)
(* descriptor maps r.name to the reference projection of r's own subtree,  *)
(* also when a nested folder has the name of a root node.                  *)
(***************************************************************************)
C1_RootsMapToOwnProjection ==
    JustMounted =>
        \A i \in 1..Len(files) :
            /\ ObjHas(mounted[1], files[i].name)
            /\ AsMapping(ObjGet(mounted[1], files[i].name)) = Reference(files[i])

(***************************************************************************)
(* C2 (code_bug).  The claim: the top-level keys of the mount descriptor   *)
(* are exactly the names of the root nodes; a nested folder never appears  *)
(* as a key of the root mapping.                                           *)
(***************************************************************************)
C2_RootKeysAreRootNames ==
    JustMounted =>
        {mounted[1][i][1] : i \in 1..Len(mounted[1])} = {files[i].name : i \in 1..Len(files)}

(***************************************************************************)
(* C3 (confirmed).  In every reachable state no two nodes of the tree, at  *)
(* any depth, have the same path, and no two children of one folder (nor   *)
(* two root nodes) have the same name.  The tree the effect has handed to  *)
(* setFiles and the next render will commit is covered as well.            *)
(***************************************************************************)
UniqueIn(tree) ==
    LET nodes == NodesOf(tree)
    IN  /\ Distinct(PathsOf(nodes))
        /\ Distinct(NamesOf(tree))
        /\ \A i \in 1..Len(nodes) : Distinct(NamesOf(KidsOf(nodes[i])))

\* C3: node paths are pairwise distinct, and so are the names of siblings
C3_PathsUnique ==
    /\ UniqueIn(files)
    /\ queued # NoUpdate => UniqueIn(queued.files[1])

\* several passes, one of them re-sending a path, then an edit: four nodes on
\* three levels
C3_Witness ==
    /\ last = "edit"
    /\ selectedFile # <<>>
    /\ Len(NodesOf(files)) >= 4
    /\ \E k, l \in 1..Len(steps) :
          k < l /\ HasPath(steps[k]) /\ HasPath(steps[l]) /\ steps[k].path = steps[l].path

(***************************************************************************)
(* C4 (code_bug, through C8).  The claim: after a reconciliation pass, for *)
(* every path p of a CreateFile step that was pending, the tree holds      *)
(* exactly one node at p and its content is the payload of the last        *)
(* pending step for p.                                                     *)
(***************************************************************************)
PassCompleted == last = "render"

PassEnded == last = "render" \/ last = "throw"

LastPendingFor(p) ==
    CHOOSE k \in WasPending :
        /\ HasPath(pass.steps[k]) /\ pass.steps[k].path = p
        /\ \A l \in WasPending :
              (HasPath(pass.steps[l]) /\ pass.steps[l].path = p) => l <= k

LastPayloadWins ==
    \A k \in WasPending :
        HasPath(pass.steps[k]) =>
            /\ Cardinality(NodesAt(files, TreePath(pass.steps[k].path))) = 1
            /\ NodeAt(files, TreePath(pass.steps[k].path)).content
                  = pass.steps[LastPendingFor(pass.steps[k].path)].code

\* C4: when a pass has ended, every path that was pending has exactly one
\* node, holding the payload of the last pending step for that path
C4_LastPayloadWins == PassEnded => LastPayloadWins

\* what holds of the code: the same, for the passes that do not throw
C4_WhenPassCompletes == PassCompleted => LastPayloadWins

(***************************************************************************)
(* C5 (confirmed).  A pass over a list without a pending step neither      *)
(* changes nor replaces the tree, writes no status and enqueues no update. *)
(***************************************************************************)
\* C5: a pass over a list without a pending step changes nothing
C5_NoPendingIsNoOp ==
    ((last = "reconcile" \/ last = "throw") /\ WasPending = {}) =>
        /\ files = pass.files
        /\ steps = pass.steps
        /\ queued = NoUpdate
        /\ ~crashed

\* the pass that follows a pass which completed every step of a two-step list
C5_Witness ==
    /\ last = "reconcile"
    /\ Len(pass.steps) >= 2
    /\ \A k \in 1..Len(pass.steps) : pass.steps[k].status = "completed"
    /\ files # <<>>

(***************************************************************************)
(* C6 (code_bug, through C8).  The claim: after one pass over a list with  *)
(* a pending step every step of the list is completed, and the tree        *)
(* reflects only the steps that were pending: every node is one the tree   *)
(* had or one on the path of a pending step, and a node that is not the    *)
(* target of a pending step keeps its kind and content.                    *)
(***************************************************************************)
OnPendingPath(q) ==
    \E k \in WasPending :
        /\ HasPath(pass.steps[k])
        /\ q = TreePath(pass.steps[k].path) \/ q \in ProperPrefixes(pass.steps[k].path)

PendingTarget(q) ==
    \E k \in WasPending : HasPath(pass.steps[k]) /\ q = TreePath(pass.steps[k].path)

SameContent(m, n) ==
    /\ ("content" \in DOMAIN m) = ("content" \in DOMAIN n)
    /\ "content" \in DOMAIN m => m.content = n.content

OnlyPendingApplied ==
    LET now == NodesOf(files)
        before == NodesOf(pass.files)
    IN  /\ \A i \in 1..Len(now) :
              \/ \E j \in 1..Len(before) : before[j].path = now[i].path
              \/ OnPendingPath(now[i].path)
        /\ \A j \in 1..Len(before) :
              /\ Cardinality({i \in 1..Len(now) : now[i].path = before[j].path}) = 1
              /\ \A i \in 1..Len(now) :
                    now[i].path = before[j].path =>
                        /\ now[i].type = before[j].type
                        /\ ~PendingTarget(before[j].path) => SameContent(now[i], before[j])

\* C6: when a pass over a list with a pending step has ended, every step is
\* completed and only the steps that were pending have touched the tree
C6_SweepCompletesAll == PassEnded => (AllCompleted /\ OnlyPendingApplied)

\* what holds of the code: the same, for the passes that do not throw
C6_WhenPassCompletes == PassCompleted => (AllCompleted /\ OnlyPendingApplied)

(***************************************************************************)
(* C7 (confirmed).  One CreateFile step with n segments applied to the     *)
(* empty tree gives exactly n nodes: a chain of n-1 folders, one per       *)
(* proper prefix, each holding the next node alone, and a file at the full *)
(* path with the step's payload.  In every state each proper prefix of an  *)
(* applied step has exactly one node, a folder, and once every step is     *)
(* applied there are as many folders as distinct proper prefixes.          *)
(***************************************************************************)
OnlyPending == pass.steps[CHOOSE k \in WasPending : TRUE]

SegmentCount(p) == Cardinality(SlashSet(p)) + 1

LastSegment(q) ==
    LET i == CHOOSE x \in SlashSet(q) : \A y \in SlashSet(q) : y <= x
    IN  SubSeq(q, i + 1, Len(q))

ChainFor(step, tree) ==
    LET n == SegmentCount(step.path)
        nodes == NodesOf(tree)
    IN  /\ Len(tree) = 1
        /\ Len(nodes) = n
        /\ \A k \in 1..(n - 1) :
              /\ IsFolder(nodes[k])
              /\ nodes[k].path = NthPrefix(step.path, k)
              /\ nodes[k].name = LastSegment(nodes[k].path)
              /\ Len(KidsOf(nodes[k])) = 1
        /\ nodes[n].type = "file"
        /\ "children" \notin DOMAIN nodes[n]
        /\ nodes[n].path = TreePath(step.path)
        /\ nodes[n].name = LastSegment(nodes[n].path)
        /\ nodes[n].content = step.code

SingleStepOnEmptyTree ==
    /\ PassCompleted
    /\ pass.files = <<>>
    /\ Cardinality(WasPending) = 1
    /\ HasPath(OnlyPending)

AppliedPrefixes ==
    UNION {ProperPrefixes(steps[k].path) :
             k \in {l \in 1..Len(steps) : steps[l].status = "completed" /\ HasPath(steps[l])}}

FoldersOf(tree) ==
    LET nodes == NodesOf(tree)
    IN  {nodes[i] : i \in {j \in 1..Len(nodes) : IsFolder(nodes[j])}}

C8_PassNeverRaises == ~crashed

(***************************************************************************)
(* C9 (confirmed).  No step of the system changes the kind of a node: a    *)
(* node that is in the tree is in the tree afterwards, at the same path    *)
(* and of the same kind.  A pass whose only pending step is a CreateFile   *)
(* at the path of a folder leaves that folder a folder with the children   *)
(* it had, and sets its content.                                           *)
(***************************************************************************)
KindKept ==
    \/ files' = files
    \/ LET before == NodesOf(files)
           after == NodesOf(files')
       IN  \A i \in 1..Len(before) :
               \E j \in 1..Len(after) :
                   /\ after[j].path = before[i].path
                   /\ after[j].type = before[i].type

CreateFileOnFolder ==
    /\ PassCompleted
    /\ Cardinality(WasPending) = 1
    /\ HasPath(OnlyPending)
    /\ NodesAt(pass.files, TreePath(OnlyPending.path)) # {}
    /\ IsFolder(NodeAt(pass.files, TreePath(OnlyPending.path)))

FolderOnlyGetsContent ==
    CreateFileOnFolder =>
        LET old == NodeAt(pass.files, TreePath(OnlyPending.path))
            new == NodeAt(files, TreePath(OnlyPending.path))
        IN  /\ IsFolder(new)
            /\ "children" \in DOMAIN new
            /\ new.children = old.children
            /\ new.name = old.name
            /\ new.content = OnlyPending.code

\* C9: the kind of a node never changes, and a CreateFile at the path of a
\* folder only writes its content
C9_KindNeverChanges == [][KindKept]_vars /\ []FolderOnlyGetsContent

\* a/b is a folder with a child when a CreateFile step for a/b is reconciled
C9_Witness ==
    /\ CreateFileOnFolder
    /\ OnlyPending.path = PathAB
    /\ KidsOf(NodeAt(files, TreePath(PathAB))) # <<>>

(***************************************************************************)
(* C10 (corrected).  Once every step is applied, the children of every     *)
(* folder stand in the order in which their paths were first seen in the   *)
(* step list.  The keys of the directory descriptor projected from the     *)
(* folder are the children's names with the names that are array-index     *)
(* numerals first, in ascending numeric order, followed by the other names *)
(* in the children's order.                                                *)
(***************************************************************************)
\* <<the path of the child of folder q that tree path t runs through>>, or <<>>
ChildUnder(q, t) ==
    IF Len(t) > Len(q) /\ SubSeq(t, 1, Len(q)) = q /\ t[Len(q) + 1] = Slash
    THEN LET rest == {i \in SlashSet(t) : i > Len(q) + 1}
         IN  IF rest = {} THEN <<t>>
             ELSE <<SubSeq(t, 1, (CHOOSE i \in rest : \A j \in rest : i <= j) - 1)>>
    ELSE <<>>

RECURSIVE FirstSeen(_, _)
\* the children of folder q in the order the step list first names them
FirstSeen(q, stepList) ==
    IF stepList = <<>> THEN <<>>
    ELSE LET front == FirstSeen(q, SubSeq(stepList, 1, Len(stepList) - 1))
             s == stepList[Len(stepList)]
             c == IF HasPath(s) THEN ChildUnder(q, TreePath(s.path)) ELSE <<>>
         IN  IF c = <<>> \/ \E i \in 1..Len(front) : front[i] = c[1]
             THEN front
             ELSE front \o c

\* own-property order of the keys `names`, set in this order
OwnPropertyOrder(names) ==
    LET idx == {i \in 1..Len(names) : IsArrayIndex(names[i])}
        pos(i) == IF i \in idx
                  THEN 1 + Cardinality({j \in idx : ToNumber(names[j]) < ToNumber(names[i])})
                  ELSE Cardinality(idx) + 1
                       + Cardinality({j \in (1..Len(names)) \ idx : j < i})
    IN  [k \in 1..Len(names) |-> names[CHOOSE i \in 1..Len(names) : pos(i) = k]]

\* the keys of the directory descriptor processFile returns for a folder
DirectoryKeys(folder) == ObjKeys(processFile(<<>>, folder, FALSE).ret[1].directory)

Settled == AllCompleted /\ queued = NoUpdate

ChildrenInFirstSeenOrder ==
    \A f \in FoldersOf(files) : PathsOf(KidsOf(f)) = FirstSeen(f.path, steps)

EditFrame(newContent) ==
    LET before == NodesOf(files)
        after == NodesOf(files')
    IN  IF selectedFile = <<>>
        THEN files' = files /\ steps' = steps /\ mounted' = mounted /\ due' = due
        ELSE /\ PathsOf(after) = PathsOf(before)
             /\ PathsOf(files') = PathsOf(files)
             /\ \A i \in 1..Len(before) :
                   /\ after[i].type = before[i].type
                   /\ after[i].name = before[i].name
                   /\ ("children" \in DOMAIN after[i]) = ("children" \in DOMAIN before[i])
                   /\ PathsOf(KidsOf(after[i])) = PathsOf(KidsOf(before[i]))
                   /\ before[i].path # selectedFile[1] => SameContent(after[i], before[i])
                   /\ before[i].path = selectedFile[1] => after[i].content = newContent
             /\ steps' = steps
             /\ mounted' = mounted

\* C11: an edit changes only the content of the node at the selected path, and
\* nothing when no node is selected
C11_EditChangesOnlySelected ==
    [][\A c \in EditContents : handleCodeChange(c) => EditFrame(c)]_vars

\* the edit of /a/b has just been made in a tree that also holds /b and /a
C11_Witness ==
    /\ last = "edit"
    /\ edits = 1
    /\ selectedFile = <<TreePath(PathAB)>>
    /\ NodeAt(files, TreePath(PathAB)).content = "z"
    /\ NodesAt(files, TreePath(PathB)) # {}
    /\ NodeAt(files, TreePath(PathB)).content # "z"

(***************************************************************************)
(* C12 (code_bug, through C8).  The claim: a pending step that names no    *)
(* file (a CreateFile step without a path, a step of another kind) changes *)
(* nothing in the tree, so that after a pass the tree is the one obtained  *)
(* by reconciling only the pending CreateFile steps that have a path, and  *)
(* the steps that name no file are marked completed by the same sweep.     *)
(***************************************************************************)
\* indices of the steps that were pending in the last pass and name no file
NonContributing == {k \in WasPending : ~HasPath(pass.steps[k])}

\* the tree a pass over the pending CreateFile steps with a path leaves behind
ContributingOnly ==
    LET r == ApplyAll(pass.files, SelectSeq(PendingOf(pass.steps), HasPath))
    IN  IF r.ok THEN r.items ELSE InPlace(pass.files, r.items)

NonContributingDropped ==
    /\ files = ContributingOnly
    /\ \A k \in NonContributing : steps[k].status = "completed"

\* C12: when a pass has ended, the tree is what the contributing steps alone
\* give, and the steps that contribute no file are completed as well
C12_NonContributingDropped == PassEnded => NonContributingDropped

\* what holds of the code: the same, for the passes that do not throw
C12_WhenPassCompletes == PassCompleted => NonContributingDropped

\* a pass over a script step and a pathless CreateFile step has been committed
C12_WhenPassCompletes_Witness ==
    /\ PassCompleted
    /\ Cardinality(NonContributing) = 2
    /\ \E k, l \in NonContributing : pass.steps[k].type # pass.steps[l].type
    /\ files # <<>>

(***************************************************************************)
(* C13 (code_bug, through C8).  The claim: with the reconcile effect       *)
(* scheduled fairly, every step appended as pending is eventually          *)
(* completed, whatever batches arrive, and a completed step is never       *)
(* pending again.                                                          *)
(***************************************************************************)
PendingAt(k) == k <= Len(steps) /\ steps[k].status = "pending"

CompletedAt(k) == k <= Len(steps) /\ steps[k].status = "completed"

StaysCompleted == \A k \in 1..Len(steps) : CompletedAt(k) => CompletedAt(k)'

\* C13: every pending step is eventually completed, and a completed step
\* stays completed
C13_PendingEventuallyCompleted ==
    /\ \A k \in 1..MaxSteps : PendingAt(k) ~> CompletedAt(k)
    /\ [][StaysCompleted]_vars

\* what holds of the code: a pending step is completed unless a pass throws,
\* and a completed step stays completed
C13_CompletedUnlessThrown ==
    /\ \A k \in 1..MaxSteps : PendingAt(k) ~> (CompletedAt(k) \/ crashed)
    /\ [][StaysCompleted]_vars

(***************************************************************************)
(* C14 (code_bug, through C8).  The claim: every mount call receives the   *)
(* projection of a finished tree, never of a tree a pass has begun to      *)
(* change; once the sandbox is available every change of the tree is       *)
(* followed by a mount call with the projection of the changed tree; so    *)
(* when nothing is left to run, the descriptor mounted last is the         *)
(* projection of the current tree.                                         *)
(***************************************************************************)
\* the descriptor mounted last is the projection of the tree as it is now
MountedCurrent == mounted = <<createMountStructure(files)>>

\* no effect is due and no state update waits for a render
AtRest == due = {} /\ queued = NoUpdate

\* the mount effect has just run on a tree no pass has work left on
MountsFinishedTree ==
    (last = "mount" /\ webcontainer) =>
        /\ MountedCurrent
        /\ PendingOf(steps) = <<>>
        /\ queued = NoUpdate
        /\ files = pass.files

\* C14: mount calls project finished trees, a changed tree is mounted again,
\* and at rest the mounted descriptor is the projection of the tree
C14_MountFollowsTree ==
    /\ []MountsFinishedTree
    /\ []((AtRest /\ webcontainer) => MountedCurrent)
    /\ webcontainer ~> MountedCurrent

\* what holds of the code: the same, as long as no pass throws
C14_UnlessThrown ==
    /\ []MountsFinishedTree
    /\ []((AtRest /\ webcontainer /\ ~crashed) => MountedCurrent)
    /\ webcontainer ~> (MountedCurrent \/ crashed)

(***************************************************************************)
(* C15 (code_bug).  The claim: once init() has finished, on every path     *)
(* through it, the loading flag is false whenever no sent instruction      *)
(* waits for its response.                                                 *)
(***************************************************************************)
InitFinished == ~initialLoading

C15_LoadingOnlyWhileInFlight == (InitFinished /\ ~inFlight) => ~loading

(***************************************************************************)
(* C16 (confirmed).  One submission of the login or the registration form  *)
(* sends at most three requests; a further request follows only a timeout  *)
(* (ECONNABORTED) of the request before it, made with fewer than two       *)
(* retries; a reply or any other failure ends the submission; and every    *)
(* submission ends, with loading and the overlay flag false.               *)
(***************************************************************************)
IsTimeout(outcome) == outcome.kind = "error" /\ outcome.code = ECONNABORTED

\* every request of the submission but the last ended in a timeout
OnlyTimeoutsRetried(a) ==
    \A i \in 1..(Len(a.outcomes) - 1) : IsTimeout(a.outcomes[i])

SubmissionInv(a) ==
    /\ a.sent <= 3
    /\ OnlyTimeoutsRetried(a)
    /\ a.pc = "request" =>
          /\ a.loading /\ a.showColdStartMessage
          /\ a.sent = Len(a.outcomes) + 1
          /\ a.retryCount = Len(a.outcomes)
          /\ a.retryCount <= 2
          /\ \A i \in 1..Len(a.outcomes) : IsTimeout(a.outcomes[i])
    /\ a.pc = "idle" =>
          /\ ~a.loading /\ ~a.showColdStartMessage
          /\ a.sent = Len(a.outcomes)
          /\ (a.submissions > 0 /\ IsTimeout(a.outcomes[Len(a.outcomes)])) => a.sent = 3

\* C16: at most three requests per submission, retries after timeouts only,
\* and every submission ends with both flags reset
C16_BoundedRetries ==
    /\ [](\A page \in Pages : SubmissionInv(auth[page]))
    /\ \A page \in Pages : (auth[page].pc = "request") ~> (auth[page].pc = "idle")

\* a login that timed out three times, and a registration that was rejected
\* by the server after one timeout
C16_Witness ==
    /\ auth["login"].pc = "idle"
    /\ auth["login"].outcomes = <<Failed(ECONNABORTED), Failed(ECONNABORTED), Failed(ECONNABORTED)>>
    /\ auth["login"].sent = 3
    /\ ~auth["login"].loading
    /\ auth["register"].pc = "idle"
    /\ auth["register"].outcomes = <<Failed(ECONNABORTED), Failed("ERR_BAD_REQUEST")>>

====
